---- MODULE Spec2Model ----
(***************************************************************************)
(* The batch data-migration pipeline of DAT-Bolt, migration/migrate-data.js *)
(* (source store -> target PostgreSQL): initializeClients, the user         *)
(* synthesis step, migrateTable's count/page/write loop, insertBatch, the   *)
(* validation pass, generateMigrationReport and main's exit paths.          *)
(*                                                                          *)
(* One process, one thread of control: pc is the await the process is at.   *)
(* Every await on the source or the target is one action per outcome the    *)
(* client library can deliver: the rows, an error payload ({error}), or a   *)
(* rejected promise (an exception).                                         *)
(***************************************************************************)
EXTENDS Integers, Sequences, FiniteSets, TLC

\* ------------------------------------------------------------------ bounds
\* The source holds at most MaxRows rows in all its tables together.
MaxRows == 3
\* CONFIG.batchSize (1000 in the code), scaled down so that full and partial
\* pages both occur within MaxRows.
BatchSize == 2
\* Store operations that fail (error payload or exception) in one run.
MaxFaults == 1
\* Runs of the process against the same source and target (SpecRerun).
MaxRuns == 2
\* Rows of each argument of a function called on its own (SpecUsers,
\* SpecTransform, SpecBatch).
MaxInput == 2

\* --------------------------------------------------------------- constants
\* migrationOrder of main: the fixed order tables are migrated in.
migrationOrder ==
  <<"user_profiles", "user_activities", "user_stats", "AuditReports", "incidents", "reports">>

\* Object.entries(tableMigrations): the order the configs are declared in,
\* which is the order the validation pass visits them in.
tableMigrations ==
  <<"AuditReports", "user_profiles", "user_activities", "user_stats", "incidents", "reports">>

Tables == {tableMigrations[i] : i \in 1..Len(tableMigrations)}

\* A JS null / undefined number (count of a failed count query).
Null == 0 - 1
\* A source table no query has observed yet.
Unknown == 0 - 2
\* CONFIG.specificTable when no --table= argument is given.
NoTable == "(none)"
\* The keys main puts into the results object, in insertion order.
ResultKeys == <<"users">> \o migrationOrder \o <<"validation">>

\* ------------------------------------------------------------------- state
VARIABLES
  pc,             \* the await (or exit) the process is at
  run,            \* number of the current run of the process
  dryRun,         \* CONFIG.dryRun
  specificTable,  \* CONFIG.specificTable
  srcCount,       \* source store: rows of each table (Unknown until observed)
  target,         \* target store: rows {id, values} of each table
  targetUsers,    \* target store: rows {id, email} of the users table
  azureClient,    \* TRUE once the target connection is established
  ended,          \* number of azureClient.end() calls made
  exitCode,       \* Null while running, else the process's exit status
  results,        \* main's results object
  validation,     \* validateMigration's results object
  report,         \* the report written by generateMigrationReport
  tableIdx,       \* index in migrationOrder / tableMigrations of the current table
  totalRecords,   \* migrateTable's totalRecords
  offset,         \* migrateTable's offset
  recordsMigrated,\* migrateTable's recordsMigrated
  transformedData,\* migrateTable's transformedData
  profiles,       \* createUsersFromProfiles' profiles (Null, or the row count)
  users,          \* createUsersFromProfiles' users array
  userIdx,        \* index of the next user to insert
  sourceCount,    \* validateMigration's sourceCount
  faults,         \* store operations that failed in this run
  ops,            \* history: the reads and writes of each table's migration, in order
  wouldInsert,    \* history: rows the dry-run log lines say would be inserted
  userWrites,     \* history: number of user INSERTs issued
  valReads,       \* history: count queries issued by the validation pass
  failed,         \* history: the tables whose migration saw a failed read or write
  prior,          \* history: results and target sizes at the end of each earlier run
  userFailed,     \* history: indexes in users of the users whose INSERT failed
  valFailed,      \* history: the tables with a failed count query in the validation pass
  reportWrites,   \* history: the outcomes of the writes of the report file issued
  call,           \* a function called on its own: its arguments and how far it got
  ret             \* what that call has produced so far

vars == <<pc, run, dryRun, specificTable, srcCount, target, targetUsers, azureClient,
          ended, exitCode, results, validation, report, tableIdx, totalRecords, offset,
          recordsMigrated, transformedData, profiles, users, userIdx, sourceCount,
          faults, ops, wouldInsert, userWrites, valReads, failed, prior,
          userFailed, valFailed, reportWrites, call, ret>>

store == <<srcCount, target, targetUsers>>
config == <<run, dryRun, specificTable>>
unit == <<call, ret>>
tableLocals == <<totalRecords, offset, recordsMigrated, transformedData>>
userLocals == <<profiles, users, userIdx>>
history == <<ops, wouldInsert, userWrites, valReads, failed, prior,
             userFailed, valFailed, reportWrites>>

\* ----------------------------------------------------------- result objects
\* {success: true, recordsMigrated: n}
Success(n) ==
  [tag |-> "result", fields |-> {"success", "recordsMigrated"},
   success |-> TRUE, recordsMigrated |-> n, error |-> ""]

\* {success: false, error: msg}
Failure(msg) ==
  [tag |-> "result", fields |-> {"success", "error"},
   success |-> FALSE, recordsMigrated |-> 0, error |-> msg]

\* results.validation: an object keyed by table name; it has no success field,
\* so r.success is undefined (falsy) and r.recordsMigrated || 0 is 0.
ValidationObject ==
  [tag |-> "validation", fields |-> Tables,
   success |-> FALSE, recordsMigrated |-> 0, error |-> ""]

\* A key the results object does not hold.
Absent ==
  [tag |-> "absent", fields |-> {}, success |-> FALSE, recordsMigrated |-> 0, error |-> ""]

\* validation entries: {source, target, match} and {error}
Counts(s, t) == [tag |-> "counts", source |-> s, target |-> t, match |-> (s = t), error |-> ""]
ValError(msg) == [tag |-> "error", source |-> 0, target |-> 0, match |-> FALSE, error |-> msg]
NoEntry == [tag |-> "absent", source |-> 0, target |-> 0, match |-> FALSE, error |-> ""]

\* ------------------------------------------------------------- source store
\* The source tables that hold rows: the two tables user synthesis reads and
\* the last table of migrationOrder; the other three tables are empty.
Populated == {"user_profiles", "AuditReports", "reports"}

\* Rows a table can turn out to hold when a query first observes it: the
\* source is not changed by the pipeline, so an observed table keeps its count.
RevealedRows(sc) ==
  LET RECURSIVE Sum(_)
      Sum(i) == IF i = 0 THEN 0
                ELSE Sum(i - 1) + (IF sc[tableMigrations[i]] = Unknown THEN 0
                                   ELSE sc[tableMigrations[i]])
  IN Sum(Len(tableMigrations))

Observable(t) ==
  IF srcCount[t] # Unknown THEN {srcCount[t]}
  ELSE IF t \in Populated THEN 0..(MaxRows - RevealedRows(srcCount))
  ELSE {0}

\* The rows of a table are identified by their position in created_at order,
\* 1..n. .range(from, to) is zero-based and inclusive on both ends.
Range(n, from, to) ==
  LET last == IF to + 1 < n THEN to + 1 ELSE n
  IN  IF from + 1 > last THEN <<>> ELSE [i \in 1..(last - from) |-> from + i]

\* user_profiles row i and AuditReports row i of the source (the fields user
\* synthesis reads). Two consecutive reports share one UserEmail.
ProfileRow(i) == [user_id |-> <<"pid", i, 0>>]
ReportRow(i) == [UserEmail |-> <<"mail", (i + 1) \div 2, 0>>]
\* data of a select: the rows, or null (no row is visited) when it failed.
ProfileRows(n) == IF n = Null THEN <<>> ELSE [i \in 1..n |-> ProfileRow(i)]
ReportRows(n) == IF n = Null THEN <<>> ELSE [i \in 1..n |-> ReportRow(i)]

\* ----------------------------------------------------------- user synthesis
NoId == <<"null", 0, 0>>
\* profile.user_id.slice(0, 8): an id is <<kind, first 8 characters, rest>>.
Slice8(id) == id[2]
\* `user-${...}@temp.local`
PlaceholderEmail(id) == <<"temp.local", Slice8(id), 0>>
\* require('crypto').randomUUID(): fresh in every run and for every call.
RandomUUID(r, k) == <<"uuid", r, k>>

MapHas(map, k) == \E i \in 1..Len(map) : map[i].key = k
\* Map.prototype.set: replaces the value of an existing key in place.
MapSet(map, k, v) ==
  IF MapHas(map, k)
  THEN [i \in 1..Len(map) |-> IF map[i].key = k THEN v ELSE map[i]]
  ELSE Append(map, v)

\* Mutant of AddProfile: no userMap.has test, every profile adds a candidate.
AddProfileMut(map, profile) ==
  IF profile.user_id # NoId
  THEN Append(map, [key |-> profile.user_id, id |-> profile.user_id,
                    email |-> PlaceholderEmail(profile.user_id)])
  ELSE map

\* profiles?.forEach(...) body (lines 299-308)
AddProfile(map, profile) ==
  IF profile.user_id # NoId /\ ~MapHas(map, profile.user_id)
  THEN MapSet(map, profile.user_id,
              [key |-> profile.user_id, id |-> profile.user_id,
               email |-> PlaceholderEmail(profile.user_id)])
  ELSE map

\* Mutant of AddReport: no scan of the emails in the map, every report adds
\* a candidate.
AddReportMut(map, rep, r) ==
  IF rep.UserEmail # NoId
  THEN Append(map, [key |-> rep.UserEmail, id |-> RandomUUID(r, Len(map) + 1),
                    email |-> rep.UserEmail])
  ELSE map

\* Mutant of AddReport: a report's email is given to a profile's candidate
\* that still has its placeholder email, instead of making a new candidate.
AddReportMergeMut(map, rep, r) ==
  IF rep.UserEmail # NoId /\ ~(\E i \in 1..Len(map) : map[i].email = rep.UserEmail)
  THEN IF \E i \in 1..Len(map) : map[i].email[1] = "temp.local"
       THEN LET k == CHOOSE i \in 1..Len(map) : map[i].email[1] = "temp.local"
            IN  [map EXCEPT ![k].email = rep.UserEmail]
       ELSE MapSet(map, rep.UserEmail,
                   [key |-> rep.UserEmail, id |-> RandomUUID(r, Len(map) + 1),
                    email |-> rep.UserEmail])
  ELSE map

\* auditReports?.forEach(...) body (lines 311-321)
AddReport(map, rep, r) ==
  IF rep.UserEmail # NoId /\ ~(\E i \in 1..Len(map) : map[i].email = rep.UserEmail)
  THEN MapSet(map, rep.UserEmail,
              [key |-> rep.UserEmail, id |-> RandomUUID(r, Len(map) + 1),
               email |-> rep.UserEmail])
  ELSE map

RECURSIVE AddProfiles(_, _, _)
AddProfiles(map, rows, i) ==
  IF i > Len(rows) THEN map ELSE AddProfiles(AddProfile(map, rows[i]), rows, i + 1)

RECURSIVE AddReports(_, _, _, _)
AddReports(map, rows, i, r) ==
  IF i > Len(rows) THEN map ELSE AddReports(AddReport(map, rows[i], r), rows, i + 1, r)

\* Array.from(userMap.values())
UsersFrom(profileRows, reportRows, r) ==
  LET map == AddReports(AddProfiles(<<>>, profileRows, 1), reportRows, 1, r)
  IN  [i \in 1..Len(map) |-> [id |-> map[i].id, email |-> map[i].email]]

\* Mutant of InsertUserRow: the conflict is detected on the id, not the email.
InsertUserRowMut(rows, u) ==
  IF \E r \in rows : r.id = u.id THEN rows ELSE rows \cup {u}

\* INSERT INTO users ... ON CONFLICT (email) DO NOTHING: a row with the same
\* email is skipped; a row with a new email and an existing id violates the
\* primary key, which the caller catches and logs.
InsertUserRow(rows, u) ==
  IF \E r \in rows : r.email = u.email THEN rows
  ELSE IF \E r \in rows : r.id = u.id THEN rows
  ELSE rows \cup {u}

\* ------------------------------------------------------------- insertBatch
\* Mutant of InsertBatchRows: ON CONFLICT DO UPDATE, a row whose identity the
\* table already holds replaces the row held.
InsertBatchRowsMut(rows, data) ==
  {r \in rows : \A i \in 1..Len(data) : data[i].id # r.id} \cup {data[i] : i \in 1..Len(data)}

\* Mutant of InsertBatchRows: a plain INSERT into a table with no key, every
\* row of the batch is added.
InsertBatchRowsDupMut(rows, data) == rows \cup {data[i] : i \in 1..Len(data)}

\* INSERT INTO t (...) VALUES ... ON CONFLICT DO NOTHING: every target table
\* has its identity column as primary key (azure-schema.sql), so a row whose
\* identity the table already holds is skipped; nothing is updated or deleted.
InsertBatchRows(rows, data) ==
  rows \cup {data[i] : i \in {j \in 1..Len(data) : \A r \in rows : r.id # data[j].id}}

\* ------------------------------------------------------------ migrateTable
\* Mutant of LoopCond: the loop test is offset <= totalRecords.
LoopCondMut(off, total) == IF total = Null THEN off <= 0 ELSE off <= total

\* while (offset < totalRecords): a null count converts to 0.
LoopCond(off, total) == IF total = Null THEN off < 0 ELSE off < total

\* if (totalRecords === 0) return ...
EmptyTable(total) == total = 0

\* Mutant of EntersLoop: the first page is fetched before any test (do-while).
EntersLoopMut(total) == TRUE

\* After the count: the first page is fetched when the table is not empty
\* and the loop test holds at offset 0 (lines 187-195).
EntersLoop(total) == ~EmptyTable(total) /\ LoopCond(0, total)

\* Mutant of NextOffset: the offset advances by one row, so pages overlap.
NextOffsetMut(off) == off + 1

\* offset += CONFIG.batchSize
NextOffset(off) == off + BatchSize

\* Mutant of SkipWrite: the dry-run flag is not looked at.
SkipWriteMut(dry) == FALSE

\* if (CONFIG.dryRun) { log } else { write }  (lines 214, 325)
SkipWrite(dry) == dry

\* sourceData.map(config.transform): one output row per input row, with the
\* identity column kept. The other columns are the row's values as this run
\* computed them (defaults filled in, a Math.random() walkthrough_id, ...).
Transform(sourceData, r) ==
  [i \in 1..Len(sourceData) |-> [id |-> sourceData[i], values |-> r]]

\* ------------------------------------------------------------------- main
\* Mutant of Selected: the --table filter is not looked at.
SelectedMut(t) == TRUE

\* tablesToMigrate[tableName] is truthy
Selected(t) == specificTable = NoTable \/ specificTable = t

RECURSIVE NextSelected(_)
NextSelected(i) ==
  IF i > Len(migrationOrder) THEN i
  ELSE IF Selected(migrationOrder[i]) THEN i ELSE NextSelected(i + 1)

\* Mutant of PcFrom: a dry run ends after its last table, without a report.
PcFromMut(i) ==
  IF NextSelected(i) <= Len(migrationOrder) THEN "count"
  ELSE IF dryRun THEN "finally" ELSE "valSource"

\* Where main goes on after the step before table i of migrationOrder.
PcFrom(i) ==
  IF NextSelected(i) <= Len(migrationOrder) THEN "count"
  ELSE IF dryRun THEN "report" ELSE "valSource"

IdxFrom(i) ==
  IF NextSelected(i) <= Len(migrationOrder) THEN NextSelected(i)
  ELSE IF dryRun THEN 0 ELSE 1

\* ------------------------------------------------- generateMigrationReport
Present(res) == {k \in DOMAIN res : res[k].tag # "absent"}

\* Object.keys(results).length
TotalTables(res) == Cardinality(Present(res))
\* Object.values(results).filter(r => r.success).length
SuccessfulTables(res) == Cardinality({k \in Present(res) : res[k].success})
\* Object.values(results).filter(r => !r.success).length
FailedTables(res) == Cardinality({k \in Present(res) : ~res[k].success})
\* .filter(r => r.success).reduce((sum, r) => sum + (r.recordsMigrated || 0), 0)
TotalRecordsMigrated(res) ==
  LET RECURSIVE Sum(_)
      Sum(i) == IF i = 0 THEN 0
                ELSE Sum(i - 1) + (IF ResultKeys[i] \in Present(res) /\ res[ResultKeys[i]].success
                                   THEN res[ResultKeys[i]].recordsMigrated ELSE 0)
  IN Sum(Len(ResultKeys))

Summary(res) ==
  [totalTables |-> TotalTables(res), successfulTables |-> SuccessfulTables(res),
   failedTables |-> FailedTables(res), totalRecordsMigrated |-> TotalRecordsMigrated(res)]

NoReport == [written |-> FALSE, dryRun |-> FALSE, summary |-> Summary([k \in {} |-> Absent])]

\* ----------------------------------------------------------------- outcomes
ReadOutcomes == {"ok", "error", "throw"}
WriteOutcomes == {"ok", "throw"}
Reliable == {"ok"}
Faulty(o) == o # "ok"
CanFail(o) == Faulty(o) => faults < MaxFaults
Count1(o) == IF Faulty(o) THEN 1 ELSE 0

\* -------------------------------------------------------------------- Init
\* No function is being called on its own.
NoCall == [fn |-> "none"]

FreshProcess ==
  /\ pc = "start"
  /\ azureClient = "unset"
  /\ ended = 0
  /\ exitCode = Null
  /\ results = [k \in {ResultKeys[i] : i \in 1..Len(ResultKeys)} |-> Absent]
  /\ validation = [t \in Tables |-> NoEntry]
  /\ report = NoReport
  /\ tableIdx = 0
  /\ totalRecords = Null /\ offset = 0 /\ recordsMigrated = 0 /\ transformedData = <<>>
  /\ profiles = Null /\ users = <<>> /\ userIdx = 0
  /\ sourceCount = Null
  /\ faults = 0
  /\ ops = [t \in Tables |-> <<>>]
  /\ wouldInsert = [k \in Tables \cup {"users"} |-> 0]
  /\ userWrites = 0
  /\ valReads = [t \in Tables |-> 0]
  /\ failed = {}
  /\ userFailed = {}
  /\ valFailed = {}
  /\ reportWrites = <<>>

\* node migrate-data.js [--dry-run] [--table=name], against a source nobody
\* has queried yet and a target whose schema was just deployed.
Init ==
  /\ FreshProcess
  /\ run = 1
  /\ dryRun \in BOOLEAN
  /\ specificTable \in {NoTable, "users"} \cup Tables
  /\ srcCount = [t \in Tables |-> Unknown]
  /\ target = [t \in Tables |-> {}]
  /\ targetUsers = {}
  /\ prior = <<>>
  /\ call = NoCall /\ ret = NoCall

\* ------------------------------------------------------- initializeClients
\* Mutant of InitializeClients: the catch block logs the error and returns,
\* so main goes on without its clients.
InitializeClientsMut(outs) ==
  /\ pc = "start"
  /\ \E o \in outs :
       azureClient' = CASE o = "ok" -> "connected"
                        [] o = "noconnect" -> "created"
                        [] OTHER -> "unset"
  /\ pc' = "profiles"
  /\ exitCode' = Null
  /\ UNCHANGED <<config, unit, store, ended, results, validation, report, tableIdx, tableLocals,
                 userLocals, sourceCount, faults, history>>

\* "noenv": a required environment variable is absent (lines 46, 56);
\* "noconnect": azureClient.connect() rejects (line 65). Both end in
\* process.exit(1) (line 70).
InitializeClients(outs) ==
  /\ pc = "start"
  /\ \E o \in outs :
       /\ azureClient' = CASE o = "ok" -> "connected"
                           [] o = "noconnect" -> "created"
                           [] OTHER -> "unset"
       /\ pc' = IF o = "ok" THEN "profiles" ELSE "exited"
       /\ exitCode' = IF o = "ok" THEN Null ELSE 1
  /\ UNCHANGED <<config, unit, store, ended, results, validation, report, tableIdx, tableLocals,
                 userLocals, sourceCount, faults, history>>

\* ------------------------------------------------- createUsersFromProfiles
\* return from createUsersFromProfiles into main (line 424) and on to the
\* first selected table.
ReturnUsers(r) ==
  /\ results' = [results EXCEPT !["users"] = r]
  /\ pc' = PcFrom(1)
  /\ tableIdx' = IdxFrom(1)
  /\ profiles' = Null /\ users' = <<>> /\ userIdx' = 0

\* await supabaseClient.from('user_profiles').select('*')  (lines 286-288)
ReadProfiles(outs) ==
  /\ pc = "profiles"
  /\ \E o \in outs : \E n \in Observable("user_profiles") :
       /\ CanFail(o)
       /\ faults' = faults + Count1(o)
       /\ IF o = "throw"
          THEN /\ ReturnUsers(Failure("exception"))
               /\ UNCHANGED srcCount
          ELSE /\ profiles' = IF o = "ok" THEN n ELSE Null
               /\ srcCount' = IF o = "ok" THEN [srcCount EXCEPT !["user_profiles"] = n]
                              ELSE srcCount
               /\ pc' = "auditReports"
               /\ UNCHANGED <<results, tableIdx, users, userIdx>>
  /\ UNCHANGED <<config, unit, target, targetUsers, azureClient, ended, exitCode, validation,
                 report, tableLocals, sourceCount, history>>

\* await supabaseClient.from('AuditReports').select(...).not(...), then the
\* userMap is built and, in a dry run or with no user, the step returns
\* (lines 290-329).
ReadReports(outs) ==
  /\ pc = "auditReports"
  /\ \E o \in outs : \E n \in Observable("AuditReports") :
       /\ CanFail(o)
       /\ faults' = faults + Count1(o)
       /\ IF o = "throw"
          THEN /\ ReturnUsers(Failure("exception"))
               /\ UNCHANGED <<srcCount, wouldInsert>>
          ELSE LET us == UsersFrom(ProfileRows(profiles),
                                   ReportRows(IF o = "ok" THEN n ELSE Null), run)
               IN /\ srcCount' = IF o = "ok" THEN [srcCount EXCEPT !["AuditReports"] = n]
                                 ELSE srcCount
                  /\ wouldInsert' = IF SkipWrite(dryRun)
                                    THEN [wouldInsert EXCEPT !["users"] = Len(us)]
                                    ELSE wouldInsert
                  /\ IF SkipWrite(dryRun) \/ Len(us) = 0
                     THEN ReturnUsers(Success(Len(us)))
                     ELSE /\ users' = us
                          /\ userIdx' = 1
                          /\ profiles' = Null
                          /\ pc' = "insertUser"
                          /\ UNCHANGED <<results, tableIdx>>
  /\ UNCHANGED <<config, unit, target, targetUsers, azureClient, ended, exitCode, validation,
                 report, tableLocals, sourceCount, ops, userWrites, valReads, failed, prior,
                 userFailed, valFailed, reportWrites>>

\* Mutant of InsertUser: the INSERT has no catch of its own, a failed one
\* ends the step with {success: false}.
InsertUserMut(outs) ==
  /\ pc = "insertUser"
  /\ \E o \in outs :
       /\ CanFail(o)
       /\ faults' = faults + Count1(o)
       /\ targetUsers' = IF o = "ok" THEN InsertUserRow(targetUsers, users[userIdx])
                         ELSE targetUsers
       /\ userFailed' = IF Faulty(o) THEN userFailed \cup {userIdx} ELSE userFailed
       /\ IF Faulty(o) THEN ReturnUsers(Failure("exception"))
          ELSE IF userIdx < Len(users)
               THEN /\ userIdx' = userIdx + 1
                    /\ UNCHANGED <<pc, results, tableIdx, profiles, users>>
               ELSE ReturnUsers(Success(Len(users)))
  /\ userWrites' = userWrites + 1
  /\ UNCHANGED <<config, unit, srcCount, target, azureClient, ended, exitCode, validation,
                 report, tableLocals, sourceCount, ops, wouldInsert, valReads, failed, prior,
                 valFailed, reportWrites>>

\* One iteration of for (const user of users): the INSERT and its catch
\* (lines 332-343), and after the last user the return (line 346).
InsertUser(outs) ==
  /\ pc = "insertUser"
  /\ \E o \in outs :
       /\ CanFail(o)
       /\ faults' = faults + Count1(o)
       /\ targetUsers' = IF o = "ok" THEN InsertUserRow(targetUsers, users[userIdx])
                         ELSE targetUsers
       /\ userFailed' = IF Faulty(o) THEN userFailed \cup {userIdx} ELSE userFailed
  /\ userWrites' = userWrites + 1
  /\ IF userIdx < Len(users)
     THEN /\ userIdx' = userIdx + 1
          /\ UNCHANGED <<pc, results, tableIdx, profiles, users>>
     ELSE ReturnUsers(Success(Len(users)))
  /\ UNCHANGED <<config, unit, srcCount, target, azureClient, ended, exitCode, validation,
                 report, tableLocals, sourceCount, ops, wouldInsert, valReads, failed, prior,
                 valFailed, reportWrites>>

\* ------------------------------------------------------------ migrateTable
CurrentTable == migrationOrder[tableIdx]

\* One entry of a table's history: a count query, a page fetch or a batch
\* write, the offset it was issued at, the rows it returned or carried (the
\* count, for a count query) and how it ended.
Op(kind, off, n, o) == [op |-> kind, offset |-> off, rows |-> n, outcome |-> o]

Logged(entry) ==
  /\ ops' = [ops EXCEPT ![CurrentTable] = Append(@, entry)]
  /\ failed' = IF Faulty(entry.outcome) THEN failed \cup {CurrentTable} ELSE failed

\* return from migrateTable into main's loop (line 431) and on to the next
\* selected table.
ReturnTable(r) ==
  /\ results' = [results EXCEPT ![CurrentTable] = r]
  /\ pc' = PcFrom(tableIdx + 1)
  /\ tableIdx' = IdxFrom(tableIdx + 1)
  /\ totalRecords' = Null /\ offset' = 0 /\ recordsMigrated' = 0 /\ transformedData' = <<>>

\* Mutant of Abort: the failed operation is tried again.
AbortMut(msg) ==
  /\ pc' = pc
  /\ UNCHANGED <<results, tableIdx, totalRecords, offset, recordsMigrated, transformedData>>

\* catch (error) { ...; return { success: false, error: error.message } }
\* (lines 231-234)
Abort(msg) == ReturnTable(Failure(msg))

\* recordsMigrated += transformedData.length; offset += CONFIG.batchSize; and
\* the loop test (lines 222-223, 195), returning at line 229 when it fails.
NextPage(len) ==
  IF LoopCond(NextOffset(offset), totalRecords)
  THEN /\ recordsMigrated' = recordsMigrated + len
       /\ offset' = NextOffset(offset)
       /\ pc' = "fetch"
       /\ transformedData' = <<>>
       /\ UNCHANGED <<results, tableIdx, totalRecords>>
  ELSE ReturnTable(Success(recordsMigrated + len))

\* The count query and what follows it up to the first page fetch
\* (lines 181-195). The query's error payload is not looked at: count is
\* then null.
CountRecords(outs) ==
  /\ pc = "count"
  /\ \E o \in outs : \E n \in Observable(CurrentTable) :
       LET total == IF o = "ok" THEN n ELSE Null
       IN /\ CanFail(o)
          /\ faults' = faults + Count1(o)
          /\ Logged(Op("count", 0, total, o))
          /\ srcCount' = IF o = "ok" THEN [srcCount EXCEPT ![CurrentTable] = n] ELSE srcCount
          /\ IF o = "throw" THEN Abort("exception")
             ELSE IF EntersLoop(total)
                  THEN /\ totalRecords' = total
                       /\ offset' = 0
                       /\ recordsMigrated' = 0
                       /\ pc' = "fetch"
                       /\ UNCHANGED <<results, tableIdx, transformedData>>
                  ELSE ReturnTable(Success(0))
  /\ UNCHANGED <<config, unit, target, targetUsers, azureClient, ended, exitCode, validation,
                 report, userLocals, sourceCount, wouldInsert, userWrites, valReads, prior,
                 userFailed, valFailed, reportWrites>>

\* Mutant of EmptyPage: an empty page does not end the loop.
EmptyPageMut(sourceData) == FALSE

\* if (!sourceData || sourceData.length === 0) break; (lines 207-209)
EmptyPage(sourceData) == Len(sourceData) = 0

\* One page fetch, the transform, and in a dry run the rest of the iteration
\* (lines 197-216, 222-225).
FetchPage(outs) ==
  /\ pc = "fetch"
  /\ \E o \in outs :
       LET sourceData == IF o = "ok"
                         THEN Range(srcCount[CurrentTable], offset, offset + BatchSize - 1)
                         ELSE <<>>
           dry == o = "ok" /\ ~EmptyPage(sourceData) /\ SkipWrite(dryRun)
       IN /\ CanFail(o)
          /\ faults' = faults + Count1(o)
          /\ Logged(Op("page", offset, Len(sourceData), o))
          /\ wouldInsert' = IF dry
                            THEN [wouldInsert EXCEPT ![CurrentTable] =
                                    @ + Len(Transform(sourceData, run))]
                            ELSE wouldInsert
          /\ IF o = "error" THEN Abort("Failed to fetch data")
             ELSE IF o = "throw" THEN Abort("exception")
             ELSE IF EmptyPage(sourceData) THEN ReturnTable(Success(recordsMigrated))
             ELSE IF dry THEN NextPage(Len(Transform(sourceData, run)))
             ELSE /\ transformedData' = Transform(sourceData, run)
                  /\ pc' = "write"
                  /\ UNCHANGED <<results, tableIdx, totalRecords, offset, recordsMigrated>>
  /\ UNCHANGED <<config, unit, store, azureClient, ended, exitCode, validation, report,
                 userLocals, sourceCount, userWrites, valReads, prior,
                 userFailed, valFailed, reportWrites>>

\* Mutant of WriteBatch: the table's inserts share one transaction, which a
\* failed insert rolls back.
WriteBatchRollbackMut(outs) ==
  /\ pc = "write"
  /\ \E o \in outs :
       /\ CanFail(o)
       /\ faults' = faults + Count1(o)
       /\ Logged(Op("write", offset, Len(transformedData), o))
       /\ target' = IF o = "ok"
                    THEN [target EXCEPT ![CurrentTable] = InsertBatchRows(@, transformedData)]
                    ELSE [target EXCEPT ![CurrentTable] = {}]
       /\ IF o = "ok" THEN NextPage(Len(transformedData))
          ELSE Abort("exception")
  /\ UNCHANGED <<config, unit, srcCount, targetUsers, azureClient, ended, exitCode, validation,
                 report, userLocals, sourceCount, wouldInsert, userWrites, valReads, prior,
                 userFailed, valFailed, reportWrites>>

\* await insertBatch(config.targetTable, transformedData, config.columns) and
\* the rest of the iteration (lines 219-225, 237-277).
WriteBatch(outs) ==
  /\ pc = "write"
  /\ \E o \in outs :
       /\ CanFail(o)
       /\ faults' = faults + Count1(o)
       /\ Logged(Op("write", offset, Len(transformedData), o))
       /\ target' = IF o = "ok"
                    THEN [target EXCEPT ![CurrentTable] = InsertBatchRows(@, transformedData)]
                    ELSE target
       /\ IF o = "ok" THEN NextPage(Len(transformedData))
          ELSE Abort("exception")
  /\ UNCHANGED <<config, unit, srcCount, targetUsers, azureClient, ended, exitCode, validation,
                 report, userLocals, sourceCount, wouldInsert, userWrites, valReads, prior,
                 userFailed, valFailed, reportWrites>>

\* -------------------------------------------------------- validateMigration
ValTable == tableMigrations[tableIdx]

\* Mutant of RecordValidation: validateMigration returns after its first
\* config.
RecordValidationMut(entry) ==
  /\ validation' = [validation EXCEPT ![ValTable] = entry]
  /\ sourceCount' = Null
  /\ tableIdx' = 0
  /\ pc' = "report"
  /\ results' = [results EXCEPT !["validation"] = ValidationObject]

\* results[tableName] = entry, then the next config of the for loop, or the
\* return into main and results.validation = validation (lines 359-384, 439).
RecordValidation(entry) ==
  /\ validation' = [validation EXCEPT ![ValTable] = entry]
  /\ sourceCount' = Null
  /\ IF tableIdx < Len(tableMigrations)
     THEN /\ tableIdx' = tableIdx + 1
          /\ pc' = "valSource"
          /\ UNCHANGED results
     ELSE /\ tableIdx' = 0
          /\ pc' = "report"
          /\ results' = [results EXCEPT !["validation"] = ValidationObject]

\* The source count query of one config (lines 362-364); its error payload
\* is not looked at.
ValidateSource(outs) ==
  /\ pc = "valSource"
  /\ \E o \in outs : \E n \in Observable(ValTable) :
       /\ CanFail(o)
       /\ faults' = faults + Count1(o)
       /\ srcCount' = IF o = "ok" THEN [srcCount EXCEPT ![ValTable] = n] ELSE srcCount
       /\ valFailed' = IF Faulty(o) THEN valFailed \cup {ValTable} ELSE valFailed
       /\ IF o = "throw"
          THEN RecordValidation(ValError("exception"))
          ELSE /\ sourceCount' = IF o = "ok" THEN n ELSE Null
               /\ pc' = "valTarget"
               /\ UNCHANGED <<results, validation, tableIdx>>
  /\ valReads' = [valReads EXCEPT ![ValTable] = @ + 1]
  /\ UNCHANGED <<config, unit, target, targetUsers, azureClient, ended, exitCode, report,
                 tableLocals, userLocals, ops, wouldInsert, userWrites, failed, prior,
                 userFailed, reportWrites>>

\* SELECT COUNT(*) on the target and the entry (lines 367-380).
ValidateTarget(outs) ==
  /\ pc = "valTarget"
  /\ \E o \in outs :
       /\ CanFail(o)
       /\ faults' = faults + Count1(o)
       /\ valFailed' = IF Faulty(o) THEN valFailed \cup {ValTable} ELSE valFailed
       /\ IF o = "ok"
          THEN RecordValidation(Counts(IF sourceCount = Null THEN 0 ELSE sourceCount,
                                       Cardinality(target[ValTable])))
          ELSE RecordValidation(ValError("exception"))
  /\ UNCHANGED <<config, unit, store, azureClient, ended, exitCode, report, tableLocals,
                 userLocals, ops, wouldInsert, userWrites, valReads, failed, prior,
                 userFailed, reportWrites>>

\* ----------------------------------------- generateMigrationReport and exit
\* The report is built and written (lines 387-409); main then exits with 1
\* when summary.failedTables > 0 (lines 448-451), and process.exit does not
\* run the finally block. A failed writeFile is caught at line 453.
GenerateReport(outs) ==
  /\ pc = "report"
  /\ \E o \in outs :
       /\ CanFail(o)
       /\ faults' = faults + Count1(o)
       /\ IF o = "ok"
          THEN /\ report' = [written |-> TRUE, dryRun |-> dryRun, summary |-> Summary(results)]
               /\ IF FailedTables(results) > 0
                  THEN pc' = "exited" /\ exitCode' = 1
                  ELSE pc' = "finally" /\ exitCode' = exitCode
          ELSE /\ report' = report
               /\ pc' = "exited"
               /\ exitCode' = 1
       /\ reportWrites' = Append(reportWrites, o)
  /\ UNCHANGED <<config, unit, store, azureClient, ended, results, validation, tableIdx,
                 tableLocals, userLocals, sourceCount, ops, wouldInsert, userWrites,
                 valReads, failed, prior, userFailed, valFailed>>

\* finally { if (azureClient) await azureClient.end() } (lines 456-460); with
\* nothing left to run the process exits with status 0.
Finally ==
  /\ pc = "finally"
  /\ ended' = IF azureClient # "unset" THEN ended + 1 ELSE ended
  /\ pc' = "exited"
  /\ exitCode' = 0
  /\ UNCHANGED <<config, unit, store, azureClient, results, validation, report, tableIdx,
                 tableLocals, userLocals, sourceCount, faults, history>>

\* The operator runs the same command again, against the same source and the
\* target as the run before left it.
Rerun ==
  /\ pc = "exited"
  /\ run < MaxRuns
  /\ run' = run + 1
  /\ prior' = Append(prior, [results |-> results, exitCode |-> exitCode,
                             rows |-> [t \in Tables |-> Cardinality(target[t])],
                             users |-> Cardinality(targetUsers)])
  /\ pc' = "start"
  /\ azureClient' = "unset"
  /\ ended' = 0
  /\ exitCode' = Null
  /\ results' = [k \in DOMAIN results |-> Absent]
  /\ validation' = [t \in Tables |-> NoEntry]
  /\ report' = NoReport
  /\ tableIdx' = 0
  /\ totalRecords' = Null /\ offset' = 0 /\ recordsMigrated' = 0 /\ transformedData' = <<>>
  /\ profiles' = Null /\ users' = <<>> /\ userIdx' = 0
  /\ sourceCount' = Null
  /\ faults' = 0
  /\ ops' = [t \in Tables |-> <<>>]
  /\ wouldInsert' = [k \in Tables \cup {"users"} |-> 0]
  /\ userWrites' = 0
  /\ valReads' = [t \in Tables |-> 0]
  /\ failed' = {}
  /\ userFailed' = {}
  /\ valFailed' = {}
  /\ reportWrites' = <<>>
  /\ UNCHANGED <<dryRun, specificTable, store, unit>>

\* ---------------------------------------------------------- specifications
\* One run of the process; any store operation may fail, MaxFaults of them.
Next ==
  \/ InitializeClients({"ok", "noenv", "noconnect"})
  \/ ReadProfiles(ReadOutcomes)
  \/ ReadReports(ReadOutcomes)
  \/ InsertUser(WriteOutcomes)
  \/ CountRecords(ReadOutcomes)
  \/ FetchPage(ReadOutcomes)
  \/ WriteBatch(WriteOutcomes)
  \/ ValidateSource(ReadOutcomes)
  \/ ValidateTarget(WriteOutcomes)
  \/ GenerateReport(WriteOutcomes)
  \/ Finally

Spec == Init /\ [][Next]_vars

\* The process run MaxRuns times in a row against stores that do not fail.
NextRerun ==
  \/ InitializeClients(Reliable)
  \/ ReadProfiles(Reliable)
  \/ ReadReports(Reliable)
  \/ InsertUser(Reliable)
  \/ CountRecords(Reliable)
  \/ FetchPage(Reliable)
  \/ WriteBatch(Reliable)
  \/ ValidateSource(Reliable)
  \/ ValidateTarget(Reliable)
  \/ GenerateReport(Reliable)
  \/ Finally
  \/ Rerun

SpecRerun == Init /\ [][NextRerun]_vars

\* The run against a source that other clients write while a table is being
\* paged: between two queries the table of the loop gains or loses rows.
SourceChange ==
  /\ pc \in {"fetch", "write"}
  /\ \E n \in 0..(MaxRows - (RevealedRows(srcCount) - srcCount[CurrentTable])) :
       /\ n # srcCount[CurrentTable]
       /\ srcCount' = [srcCount EXCEPT ![CurrentTable] = n]
  /\ UNCHANGED <<config, unit, target, targetUsers, azureClient, ended, exitCode, results,
                 validation, report, tableLocals, userLocals, sourceCount, history, pc,
                 tableIdx, faults>>

\* The queries of migrateTable may fail, MaxFaults of them; the rest of the
\* run meets no failure.
NextChurn ==
  \/ InitializeClients(Reliable)
  \/ ReadProfiles(Reliable)
  \/ ReadReports(Reliable)
  \/ InsertUser(Reliable)
  \/ CountRecords(ReadOutcomes)
  \/ FetchPage(ReadOutcomes)
  \/ WriteBatch(WriteOutcomes)
  \/ ValidateSource(Reliable)
  \/ ValidateTarget(Reliable)
  \/ GenerateReport(Reliable)
  \/ Finally
  \/ SourceChange

\* node migrate-data.js [--dry-run] --table=name, for a table that holds rows.
InitChurn == Init /\ specificTable \in Populated

\* Every awaited query of migrateTable eventually settles, so the loop keeps
\* stepping while the source changes.
SpecChurn ==
  /\ InitChurn
  /\ [][NextChurn]_vars
  /\ WF_vars(CountRecords(ReadOutcomes) \/ FetchPage(ReadOutcomes) \/ WriteBatch(WriteOutcomes))

\* ------------------------------------------- functions called on their own
\* The variables of the pipeline, which a function called on its own leaves
\* alone.
pipeline == <<pc, run, dryRun, specificTable, srcCount, target, targetUsers, azureClient,
              ended, exitCode, results, validation, report, tableIdx, totalRecords, offset,
              recordsMigrated, transformedData, profiles, users, userIdx, sourceCount,
              faults, ops, wouldInsert, userWrites, valReads, failed, prior,
              userFailed, valFailed, reportWrites>>

\* The pipeline is not running.
Idle ==
  /\ FreshProcess
  /\ run = 1
  /\ dryRun = FALSE
  /\ specificTable = NoTable
  /\ srcCount = [t \in Tables |-> Unknown]
  /\ target = [t \in Tables |-> {}]
  /\ targetUsers = {}
  /\ prior = <<>>

\* The sequences of at most n elements of S.
SeqsUpTo(S, n) == UNION {[1..k -> S] : k \in 0..n}

\* user_id values of user_profiles rows: null, and ids of which two share
\* their first 8 characters.
UserIds == {NoId, <<"pid", 1, 0>>, <<"pid", 1, 1>>, <<"pid", 2, 0>>}
\* UserEmail values of AuditReports rows: null or empty, two addresses, and
\* an address of the form the placeholder emails have.
UserEmails == {NoId, <<"mail", 1, 0>>, <<"mail", 2, 0>>, <<"temp.local", 1, 0>>}

\* createUsersFromProfiles' map building (lines 296-323) on any profiles and
\* reports.
InitUsers ==
  /\ Idle
  /\ \E p \in SeqsUpTo([user_id : UserIds], MaxInput) :
       \E r \in SeqsUpTo([UserEmail : UserEmails], MaxInput) :
         call = [fn |-> "createUsers", profiles |-> p, reports |-> r, done |-> FALSE]
  /\ ret = NoCall

SynthesizeUsers ==
  /\ call.fn = "createUsers" /\ ~call.done
  /\ ret' = [fn |-> "createUsers",
             afterProfiles |-> AddProfiles(<<>>, call.profiles, 1),
             users |-> UsersFrom(call.profiles, call.reports, 1)]
  /\ call' = [call EXCEPT !.done = TRUE]
  /\ UNCHANGED pipeline

NextUsers == SynthesizeUsers

SpecUsers == InitUsers /\ [][NextUsers]_vars

\* ------------------------------------------------- tableMigrations[t].transform
\* Field values: undefined or null, the falsy values 0 and '', and any other
\* (truthy) value.
Undefined == "undefined"
FalsyValues == {Undefined, "0", "''"}
Falsy(v) == v \in FalsyValues

\* Mutant of Or: the default is never applied.
OrMut(v, d) == v

\* v || d
Or(v, d) == IF Falsy(v) THEN d ELSE v

\* The keys of the object config.transform returns, in the order written.
TransformFields(t) ==
  CASE t = "AuditReports" ->
         <<"Id", "UserEmail", "GeneratedBy", "Timestamp", "datacenter", "datahall",
           "issues_reported", "state", "walkthrough_id", "user_full_name", "ReportData">>
    [] t = "user_profiles" ->
         <<"user_id", "full_name", "avatar_url", "phone", "department", "updated_at">>
    [] t = "user_activities" ->
         <<"id", "user_id", "type", "description", "created_at">>
    [] t = "user_stats" ->
         <<"user_id", "walkthroughs_completed", "issues_resolved", "reports_generated",
           "updated_at">>
    [] t = "incidents" ->
         <<"id", "location", "datahall", "description", "severity", "status",
           "created_at", "updated_at", "user_id">>
    [] t = "reports" ->
         <<"id", "title", "generated_by", "generated_at", "date_range_start",
           "date_range_end", "datacenter", "datahall", "status", "total_incidents",
           "report_data">>

\* config.columns
Columns(t) ==
  CASE t = "AuditReports" ->
         <<"Id", "UserEmail", "GeneratedBy", "Timestamp", "datacenter", "datahall",
           "issues_reported", "state", "walkthrough_id", "user_full_name", "ReportData">>
    [] t = "user_profiles" ->
         <<"user_id", "full_name", "avatar_url", "phone", "department", "updated_at">>
    [] t = "user_activities" ->
         <<"id", "user_id", "type", "description", "created_at">>
    [] t = "user_stats" ->
         <<"user_id", "walkthroughs_completed", "issues_resolved", "reports_generated",
           "updated_at">>
    [] t = "incidents" ->
         <<"id", "location", "datahall", "description", "severity", "status",
           "created_at", "updated_at", "user_id">>
    [] t = "reports" ->
         <<"id", "title", "generated_by", "generated_at", "date_range_start",
           "date_range_end", "datacenter", "datahall", "status", "total_incidents",
           "report_data">>

\* The literal right-hand sides of the `row.f || literal` fields.
Literals(t) ==
  CASE t = "AuditReports" ->
         [datacenter |-> "Unknown", datahall |-> "Unknown", issues_reported |-> "0",
          state |-> "Healthy", user_full_name |-> "Unknown User", ReportData |-> "{}"]
    [] t = "user_profiles" -> [department |-> "Data Center Operations"]
    [] t = "user_activities" -> [f \in {} |-> Undefined]
    [] t = "user_stats" ->
         [walkthroughs_completed |-> "0", issues_resolved |-> "0", reports_generated |-> "0"]
    [] t = "incidents" -> [description |-> "''", status |-> "open"]
    [] t = "reports" -> [status |-> "draft", total_incidents |-> "0", report_data |-> "{}"]

\* Math.floor(Math.random() * 10000): 0 or a positive integer.
RandomInts == {"0", "4711"}

SeqRange(seq) == {seq[i] : i \in 1..Len(seq)}

\* config.transform(row), with rnd the value Math.random() gives when it is
\* called (lines 79-91, 102-109, 116-122, 129-135, 142-152, 159-171).
RowTransform(t, row, rnd) ==
  [f \in SeqRange(TransformFields(t)) |->
     IF t = "AuditReports" /\ f = "GeneratedBy" THEN Or(row[f], row["UserEmail"])
     ELSE IF t = "AuditReports" /\ f = "walkthrough_id" THEN Or(row[f], rnd)
     ELSE IF f \in DOMAIN Literals(t) THEN Or(row[f], Literals(t)[f])
     ELSE row[f]]

\* Source rows of table t: every field holds a value but at most n of them,
\* which are absent or falsy.
SourceRows(t, n) ==
  LET F == SeqRange(TransformFields(t))
  IN UNION {{[f \in F |-> IF f \in S THEN a[f] ELSE "v"] : a \in [S -> FalsyValues]} :
            S \in {S \in SUBSET F : Cardinality(S) <= n}}

InitTransform ==
  /\ Idle
  /\ \E t \in Tables : \E row \in SourceRows(t, MaxInput) :
       call = [fn |-> "transform", table |-> t, row |-> row, done |-> FALSE]
  /\ ret = NoCall

TransformRow ==
  /\ call.fn = "transform" /\ ~call.done
  /\ \E rnd \in RandomInts :
       ret' = [fn |-> "transform", out |-> RowTransform(call.table, call.row, rnd)]
  /\ call' = [call EXCEPT !.done = TRUE]
  /\ UNCHANGED pipeline

NextTransform == TransformRow

SpecTransform == InitTransform /\ [][NextTransform]_vars

\* ------------------------------------------------- insertBatch on its own
\* Values of a transformed row's field: a scalar, an object.
FieldValues == {"v", "{}"}
\* typeof value === 'object' && value !== null
IsObject(v) == v = "{}"
\* JSON.stringify(value): the JSON text of the value, a string.
JsonStringify(v) == IF v = "{}" THEN "'{}'" ELSE v
\* The callback of columns.map at lines 254-261.
BindValue(row, col) ==
  LET value == IF col \in DOMAIN row THEN row[col] ELSE Undefined
  IN  IF IsObject(value) THEN JsonStringify(value) ELSE value

\* Mutant of Placeholder: the numbering starts again in every row.
PlaceholderMut(rowIndex, colIndex, m) == colIndex + 1

\* `$${rowIndex * columns.length + colIndex + 1}`, indexes from 0
Placeholder(rowIndex, colIndex, m) == rowIndex * m + colIndex + 1

\* placeholders (lines 242-247): one group per row, one placeholder per column.
Placeholders(data, columns) ==
  [r \in 1..Len(data) |->
     [c \in 1..Len(columns) |-> Placeholder(r - 1, c - 1, Len(columns))]]

\* values = data.flatMap(row => columns.map(...)) (lines 253-262)
RECURSIVE FlatValues(_, _, _)
FlatValues(data, columns, i) ==
  IF i > Len(data) THEN <<>>
  ELSE [c \in 1..Len(columns) |-> BindValue(data[i], columns[c])]
       \o FlatValues(data, columns, i + 1)

\* Mutant of EmptyBatch: the length of data is not looked at.
EmptyBatchMut(data) == FALSE

\* if (data.length === 0) return;
EmptyBatch(data) == Len(data) = 0

\* The column names insertBatch is called with, and the rows: a row holds
\* any of the fields, each with any value.
BatchColumns == <<"Id", "state", "ReportData", "Timestamp", "datacenter">>
BatchRows ==
  LET F == {BatchColumns[i] : i \in 1..MaxInput}
  IN  UNION {[S -> FieldValues] : S \in SUBSET F}

InitBatch ==
  /\ Idle
  /\ \E m \in 1..MaxInput : \E data \in SeqsUpTo(BatchRows, MaxInput) :
       call = [fn |-> "insertBatch", data |-> data, columns |-> SubSeq(BatchColumns, 1, m),
               done |-> FALSE]
  /\ ret = NoCall

\* insertBatch(tableName, data, columns) (lines 237-277): the statements it
\* sent to the target and whether it threw.
InsertBatch(outs) ==
  /\ call.fn = "insertBatch" /\ ~call.done
  /\ \E o \in outs :
       ret' = IF EmptyBatch(call.data)
              THEN [fn |-> "insertBatch", statements |-> <<>>, threw |-> FALSE]
              ELSE [fn |-> "insertBatch",
                    statements |-> <<[columnNames |-> call.columns,
                                      placeholders |-> Placeholders(call.data, call.columns),
                                      values |-> FlatValues(call.data, call.columns, 1)]>>,
                    threw |-> Faulty(o)]
  /\ call' = [call EXCEPT !.done = TRUE]
  /\ UNCHANGED pipeline

NextBatch == InsertBatch(WriteOutcomes)

SpecBatch == InitBatch /\ [][NextBatch]_vars

\* ------------------------------------ DatabaseConnection.transaction(callback)
\* One statement sent on the pooled client, and how it ended.
Entry(q, o) == [q |-> q, o |-> o]

\* What the caller of transaction gets: the callback's result, or an error.
Returned(error) == [fn |-> "transaction", threw |-> error # "none", error |-> error]

\* await this.initialize() reading the connection string, its test connection,
\* and this.pool.connect()
ConnectOutcomes == {"ok", "nostring", "notest", "noconnect"}

\* Mutant of FinallyAfter: client.release() follows the try statement instead
\* of sitting in its finally block.
FinallyAfterMut(o) == IF o = "ok" THEN "release" ELSE "done"

\* finally { client.release() } runs however the catch block ends.
FinallyAfter(o) == "release"

\* transaction is called with a callback that issues n statements, on a
\* DatabaseConnection whose pool exists or not.
InitTxn ==
  /\ Idle
  /\ \E n \in 1..(MaxInput + 2) : \E pool \in BOOLEAN :
       call = [fn |-> "transaction", n |-> n, pool |-> pool, at |-> "connect", i |-> 0,
               log |-> <<>>, clients |-> 0, released |-> 0, error |-> "none"]
  /\ ret = NoCall

\* if (!this.pool) await this.initialize(); const client = await
\* this.pool.connect(); (lines 96-100, 12-44)
Connect(outs) ==
  /\ call.fn = "transaction" /\ call.at = "connect"
  /\ \E o \in outs :
       /\ o \in {"nostring", "notest"} => ~call.pool
       /\ IF o = "ok"
          THEN /\ call' = [call EXCEPT !.pool = TRUE, !.clients = 1, !.at = "begin"]
               /\ ret' = ret
          ELSE /\ call' = [call EXCEPT !.pool = IF o = "nostring" THEN @ ELSE TRUE,
                                       !.at = "done", !.error = o]
               /\ ret' = Returned(o)
  /\ UNCHANGED pipeline

\* await client.query('BEGIN')
Begin(outs) ==
  /\ call.fn = "transaction" /\ call.at = "begin"
  /\ \E o \in outs :
       call' = [call EXCEPT !.log = Append(@, Entry("BEGIN", o)),
                            !.at = IF o = "ok" THEN "callback" ELSE "rollback",
                            !.error = IF o = "ok" THEN @ ELSE "BEGIN"]
  /\ UNCHANGED <<ret, pipeline>>

\* const result = await callback(client): the callback's next statement
Callback(outs) ==
  /\ call.fn = "transaction" /\ call.at = "callback"
  /\ \E o \in outs :
       call' = [call EXCEPT !.log = Append(@, Entry("statement", o)),
                            !.i = @ + 1,
                            !.at = IF o # "ok" THEN "rollback"
                                   ELSE IF call.i + 1 = call.n THEN "commit" ELSE "callback",
                            !.error = IF o = "ok" THEN @ ELSE "callback"]
  /\ UNCHANGED <<ret, pipeline>>

\* await client.query('COMMIT'); return result;
Commit(outs) ==
  /\ call.fn = "transaction" /\ call.at = "commit"
  /\ \E o \in outs :
       call' = [call EXCEPT !.log = Append(@, Entry("COMMIT", o)),
                            !.at = IF o = "ok" THEN "release" ELSE "rollback",
                            !.error = IF o = "ok" THEN @ ELSE "COMMIT"]
  /\ UNCHANGED <<ret, pipeline>>

\* catch (error) { await client.query('ROLLBACK'); throw error; }
Rollback(outs) ==
  /\ call.fn = "transaction" /\ call.at = "rollback"
  /\ \E o \in outs :
       call' = [call EXCEPT !.log = Append(@, Entry("ROLLBACK", o)),
                            !.at = FinallyAfter(o),
                            !.error = IF o = "ok" THEN @ ELSE "ROLLBACK"]
  /\ UNCHANGED <<ret, pipeline>>

\* finally { client.release(); } and the return or throw it was entered with
Release ==
  /\ call.fn = "transaction" /\ call.at = "release"
  /\ call' = [call EXCEPT !.released = @ + 1, !.at = "done"]
  /\ ret' = Returned(call.error)
  /\ UNCHANGED pipeline

NextTxn ==
  \/ Connect(ConnectOutcomes)
  \/ Begin(WriteOutcomes)
  \/ Callback(WriteOutcomes)
  \/ Commit(WriteOutcomes)
  \/ Rollback(WriteOutcomes)
  \/ Release

SpecTxn == InitTxn /\ [][NextTxn]_vars

\* ------------------------------------------------------------------ claims
\* The per-source result objects main has recorded: users and each migrated table.
SourceResults == {k \in {"users"} \cup Tables : results[k].tag = "result"}

\* The run got as far as writing its report and then exited: no exception
\* reached main's catch block.
Completed == pc = "exited" /\ report.written

\* The migration loop of main is over.
TablesDone == pc \in {"valSource", "valTarget", "report", "finally"} \/ Completed

Ceil(n, d) == (n + d - 1) \div d
Min(a, b) == IF a < b THEN a ELSE b

OpsOf(t, kind) == SelectSeq(ops[t], LAMBDA e : e.op = kind)

RECURSIVE SumRows(_)
SumRows(seq) == IF seq = <<>> THEN 0 ELSE Head(seq).rows + SumRows(Tail(seq))

\* The sum of f(k) over users and the six tables.
SumOver(f) ==
  LET RECURSIVE Sum(_)
      Sum(i) == IF i = 0 THEN 0 ELSE Sum(i - 1) + f[migrationOrder[i]]
  IN f["users"] + Sum(Len(migrationOrder))

\* Rows handed to insertBatch for table t so far in this run.
RowsHanded(t) == SumRows(OpsOf(t, "write"))

\* The count query of t's migration returned a count.
Counted(t) == ops[t] # <<>> /\ ops[t][1].op = "count" /\ ops[t][1].outcome = "ok"

\* C1: a run that completes (no signal, no unexpected exception) exits with
\* status 0 when the users result and every migrated table's result are
\* successful, and with status 1 when one of them is not, in a dry run and in
\* a real run alike.
C1_ExitStatusFollowsResults ==
  Completed =>
    /\ (\A k \in SourceResults : results[k].success) => exitCode = 0
    /\ (\E k \in SourceResults : ~results[k].success) => exitCode = 1

\* C2: when a read or a batch write of one table's migration fails, that
\* table's result is {success: false, error}, and every later selected table
\* is still migrated in the same run.
C2_FailureIsTableScoped ==
  /\ \A t \in Tables :
       (t \in failed /\ results[t].tag = "result") =>
         (~results[t].success /\ "error" \in results[t].fields)
  /\ TablesDone => \A t \in Tables : Selected(t) => results[t].tag = "result"

\* C3: the report's summary counts the per-source result objects (users and
\* each migrated table): their number, the successful ones, the failed ones,
\* and the records of the successful ones; failedTables is 0 exactly when
\* nothing failed.
C3_SummaryCountsSources ==
  report.written =>
    /\ report.summary.totalTables = Cardinality(SourceResults)
    /\ report.summary.successfulTables =
         Cardinality({k \in SourceResults : results[k].success})
    /\ report.summary.failedTables =
         Cardinality({k \in SourceResults : ~results[k].success})
    /\ report.summary.totalRecordsMigrated =
         SumOver([k \in {"users"} \cup Tables |->
                    IF k \in SourceResults /\ results[k].success
                    THEN results[k].recordsMigrated ELSE 0])
    /\ (report.summary.failedTables = 0) <=> (\A k \in SourceResults : results[k].success)

\* C4: in a dry run nothing is written to the target at any point (no user
\* INSERT, no batch), while the pages are still read: a successful table's
\* recordsMigrated is the number of rows the run logged it would insert, all
\* the rows of the table when its count query answered, and the report's
\* totalRecordsMigrated is the sum of these over users and the tables.
C4_DryRunWritesNothing ==
  dryRun =>
    /\ userWrites = 0 /\ targetUsers = {}
    /\ \A t \in Tables : OpsOf(t, "write") = <<>> /\ target[t] = {}
    /\ \A k \in SourceResults :
         results[k].success => results[k].recordsMigrated = wouldInsert[k]
    /\ \A t \in Tables :
         (results[t].tag = "result" /\ results[t].success /\ Counted(t)) =>
           results[t].recordsMigrated = ops[t][1].rows
    /\ report.written =>
         report.summary.totalRecordsMigrated =
           SumOver([k \in {"users"} \cup Tables |->
                      IF k \in SourceResults /\ results[k].success
                      THEN wouldInsert[k] ELSE 0])

\* A dry run over a table of more than one page has written its report.
C4_Witness ==
  /\ dryRun /\ Completed
  /\ \E t \in Tables : results[t].success /\ results[t].recordsMigrated > BatchSize
  /\ report.summary.totalRecordsMigrated > BatchSize

C7_PagesCoverTable ==
  \A t \in Tables :
    (results[t].tag = "result" /\ t \notin failed /\ Counted(t) /\ ops[t][1].rows > 0) =>
      LET n == ops[t][1].rows
          pages == OpsOf(t, "page")
      IN /\ Len(pages) = Ceil(n, BatchSize)
         /\ \A i \in 1..Len(pages) :
              /\ pages[i].offset = (i - 1) * BatchSize
              /\ pages[i].rows = Min(BatchSize, n - (i - 1) * BatchSize)
         /\ results[t] = Success(n)

\* A table was migrated in a full page followed by a partial one.
C7_Witness ==
  \E t \in Tables :
    /\ results[t].tag = "result" /\ results[t].success /\ t \notin failed
    /\ Len(OpsOf(t, "page")) > 1
    /\ OpsOf(t, "page")[1].rows = BatchSize
    /\ OpsOf(t, "page")[Len(OpsOf(t, "page"))].rows < BatchSize
    /\ results[t].recordsMigrated > BatchSize

\* C8: when the count query of a table answers 0, the migration returns
\* {success: true, recordsMigrated: 0} with no page fetched and nothing
\* written to the target.
C8_EmptyTableSkipped ==
  \A t \in Tables :
    (Counted(t) /\ ops[t][1].rows = 0) =>
      /\ results[t] = Success(0)
      /\ Len(ops[t]) = 1
      /\ target[t] = {}

\* An empty table was met in a real run that went on to its report.
C8_Witness ==
  /\ ~dryRun /\ Completed
  /\ \E t \in Tables : Counted(t) /\ ops[t][1].rows = 0

\* C9: when a read of a table's migration (the count query or a page fetch)
\* ends with an error payload, the table's result is success: false with the
\* error message, never success: true.
C9_ErrorPayloadFailsTable ==
  \A t \in Tables :
    (/\ results[t].tag = "result"
     /\ \E i \in 1..Len(ops[t]) :
          ops[t][i].op \in {"count", "page"} /\ ops[t][i].outcome = "error") =>
      (~results[t].success /\ "error" \in results[t].fields)

C5_RerunAddsNothing ==
  /\ run > 1 =>
       /\ \A t \in Tables : Cardinality(target[t]) = prior[run - 1].rows[t]
       /\ Cardinality(targetUsers) = prior[run - 1].users
       /\ \A i \in 1..Len(prior) : \A k \in {"users"} \cup Tables :
            /\ prior[i].results[k].tag = "result" <=> (k = "users" \/ Selected(k))
            /\ prior[i].results[k].tag = "result" => prior[i].results[k].success
  /\ Completed => \A k \in {"users"} \cup Tables :
       /\ results[k].tag = "result" <=> (k = "users" \/ Selected(k))
       /\ results[k].tag = "result" => results[k].success

\* The full pipeline has run a second time, not as a dry run, over a target
\* holding users and a table of more than one page.
C5_Witness ==
  /\ run > 1 /\ Completed /\ ~dryRun /\ specificTable = NoTable
  /\ Cardinality(targetUsers) > 1
  /\ \E t \in Tables : Cardinality(target[t]) > BatchSize
  /\ \E i \in 1..Len(OpsOf("AuditReports", "write")) : TRUE

\* C11: a page read or a batch write of a table's migration that fails is
\* attempted again, at the same offset, before the table is reported as
\* failed.
C11_RetriesTransientFailure ==
  \A t \in Tables :
    (results[t].tag = "result" /\ ~results[t].success) =>
      \A i \in 1..Len(ops[t]) :
        (ops[t][i].op \in {"page", "write"} /\ Faulty(ops[t][i].outcome)) =>
          Cardinality({j \in 1..Len(ops[t]) :
                         /\ ops[t][j].op = ops[t][i].op
                         /\ ops[t][j].offset = ops[t][i].offset}) > 1

\* C12: no step of a run updates or deletes a row the target holds, whether
\* it was there before the run or was inserted earlier in the run, and no
\* step changes the source: the only change to the stores is the addition
\* of target rows.
C12_OnlyCreatesRows ==
  [][/\ \A t \in Tables : target[t] \subseteq target'[t]
     /\ targetUsers \subseteq targetUsers'
     /\ \A t \in Tables : srcCount[t] # Unknown => srcCount'[t] = srcCount[t]]_vars

\* A second run has written batches and users over the rows the first run
\* inserted, and the first run's rows are those the target holds.
C12_Witness ==
  /\ run > 1 /\ Completed
  /\ userWrites > 0 /\ targetUsers # {}
  /\ \E t \in Tables :
       /\ Len(OpsOf(t, "write")) > 1
       /\ target[t] # {}
       /\ \A r \in target[t] : r.values = 1

\* C13: after any sequence of runs every target table holds at most one row
\* per identity and the users table at most one row per email (and per id);
\* a batch or a user insert that collides with rows the target already holds
\* is skipped, and the table's migration still reports success with all its
\* rows counted.
C13_OneRowPerIdentity ==
  /\ \A t \in Tables : \A r1, r2 \in target[t] : r1.id = r2.id => r1 = r2
  /\ \A u1, u2 \in targetUsers : (u1.email = u2.email \/ u1.id = u2.id) => u1 = u2
  /\ run > 1 =>
       /\ \A t \in Tables :
            (results[t].tag = "result" /\ Counted(t)) => results[t] = Success(ops[t][1].rows)
       /\ \A t \in Tables : Cardinality(target[t]) = prior[1].rows[t]
       /\ results["users"].tag = "result" => results["users"].success

\* A second run has offered the target every row and every user it already
\* held from the first run.
C13_Witness ==
  /\ run > 1 /\ Completed /\ specificTable = NoTable
  /\ prior[1].users > 1 /\ userWrites >= prior[1].users
  /\ \E t \in Tables :
       /\ prior[1].rows[t] > BatchSize
       /\ RowsHanded(t) = prior[1].rows[t]

\* The order of migration the specification fixes.
SpecOrder ==
  <<"user_profiles", "user_activities", "user_stats", "AuditReports", "incidents", "reports">>

\* The --table filter lets t through.
Filtered(t) == specificTable = NoTable \/ specificTable = t

\* The migration of t has issued its first read.
Started(t) == ops[t] # <<>>

\* Initialization succeeded and the process is past it.
PastInit == azureClient = "connected" /\ pc # "start"

\* The process is in its user synthesis step.
InUsers == pc \in {"profiles", "auditReports", "insertUser"}

\* C14: in every run that passes initialization, user synthesis comes first,
\* with or without a --table filter; then the tables the filter lets through
\* are migrated in the order user_profiles, user_activities, user_stats,
\* AuditReports, incidents, reports, each one starting only when the one
\* before it has returned its result, so that at most one migration is under
\* way at any time; no other table is touched.
C14_UsersThenTablesInOrder ==
  /\ InUsers => \A t \in Tables : ~Started(t) /\ results[t].tag = "absent"
  /\ (PastInit /\ ~InUsers) => results["users"].tag = "result"
  /\ \A t \in Tables : (Started(t) \/ results[t].tag = "result") => Filtered(t)
  /\ \A i \in 1..Len(SpecOrder) :
       Started(SpecOrder[i]) =>
         \A j \in 1..(i - 1) : Filtered(SpecOrder[j]) => results[SpecOrder[j]].tag = "result"
  /\ Cardinality({t \in Tables : Started(t) /\ results[t].tag = "absent"}) <= 1
  /\ TablesDone => \A t \in Tables : Filtered(t) => results[t].tag = "result"

\* With no filter, the last table of the order is being written while users
\* were synthesized and an earlier table has been migrated.
C14_Witness ==
  /\ specificTable = NoTable /\ pc = "write" /\ CurrentTable = "reports"
  /\ results["users"].success /\ results["users"].recordsMigrated > 0
  /\ \E t \in Tables : t # "reports" /\ Len(ops[t]) > 1 /\ results[t].success

\* C15: when a required connection parameter is absent or the target
\* connection cannot be established, the process exits with status 1 and has
\* read nothing from the source, written nothing to the target and written
\* no report; nothing of the pipeline runs without the connection.
C15_InitFailureExitsFirst ==
  /\ azureClient # "connected" => pc \in {"start", "exited"}
  /\ (pc = "exited" /\ azureClient # "connected") =>
       /\ exitCode = 1
       /\ \A t \in Tables :
            /\ srcCount[t] = Unknown /\ ops[t] = <<>> /\ valReads[t] = 0
            /\ target[t] = {}
       /\ userWrites = 0 /\ targetUsers = {}
       /\ reportWrites = <<>> /\ ~report.written
       /\ \A k \in DOMAIN results : results[k].tag = "absent"

\* The process has exited because the target connection could not be
\* established.
C15_Witness == pc = "exited" /\ azureClient = "created" /\ exitCode = 1

\* C16: on every path by which the process exits after the target connection
\* was established, the connection's close call has been made exactly once,
\* and it is never made twice.
C16_ConnectionClosedOnce ==
  /\ ended <= 1
  /\ (pc = "exited" /\ azureClient = "connected") => ended = 1

C18_ValidationOnceUnlessDryRun ==
  /\ dryRun =>
       /\ \A t \in Tables : valReads[t] = 0 /\ validation[t] = NoEntry
       /\ results["validation"].tag = "absent"
  /\ \A t \in Tables : valReads[t] <= 1
  /\ (\E t \in Tables : valReads[t] > 0) =>
       \A t \in Tables : Filtered(t) => results[t].tag = "result"
  /\ (~dryRun /\ Len(reportWrites) = 1) =>
       /\ \A t \in Tables : valReads[t] = 1 /\ validation[t].tag \in {"counts", "error"}
       /\ results["validation"] = ValidationObject
  /\ Cardinality(Tables) = 6

\* A real run restricted to one table has validated a table the filter left
\* out, whose rows the target therefore lacks.
C18_Witness ==
  /\ ~dryRun /\ Completed /\ specificTable \in Tables
  /\ \A t \in Tables : validation[t].tag = "counts"
  /\ \E t \in Tables : ~Filtered(t) /\ validation[t].source > 0 /\ ~validation[t].match

\* C19: in the validation pass a table whose source count query or target
\* count query failed gets the entry {error}, never {source, target, match},
\* and the other tables are still validated.
C19_ValidationFailureRecorded ==
  /\ \A t \in valFailed : validation[t].tag # "absent" => validation[t].tag = "error"
  /\ (~dryRun /\ Len(reportWrites) = 1) => \A t \in Tables : validation[t].tag # "absent"

\* C20: in user synthesis every synthesized user is offered to the target
\* once, in order; a user whose INSERT fails is left out of the target, the
\* users after it are still inserted, and the step returns success: true with
\* the number of users synthesized.
C20_FailedUserInsertSkipped ==
  /\ userFailed \subseteq 1..userWrites
  /\ pc = "insertUser" => (userWrites = userIdx - 1 /\ userIdx <= Len(users))
  /\ (results["users"].tag = "result" /\ userWrites > 0) =>
       results["users"] = Success(userWrites)
  /\ Cardinality(targetUsers) = userWrites - Cardinality(userFailed)

\* The INSERT of a user failed, a later user was inserted, and the step
\* returned success.
C20_Witness ==
  /\ results["users"].tag = "result" /\ results["users"].success
  /\ \E i \in userFailed : i < userWrites
  /\ targetUsers # {}

\* The candidates user synthesis emitted, and those among them made from a
\* report (their id is a fresh UUID).
Emitted == ret.users
FromReport(u) == u.id[1] = "uuid"
\* The non-null values of a field of the rows given.
ProfileIds == {call.profiles[i].user_id : i \in 1..Len(call.profiles)} \ {NoId}
ReportEmails == {call.reports[i].UserEmail : i \in 1..Len(call.reports)} \ {NoId}

\* C21: for any AuditReports rows, at most one candidate is made from
\* reports per distinct UserEmail, none is made for an email a candidate in
\* the map already holds, and every UserEmail ends up held by a candidate;
\* zero profiles and two reports sharing one UserEmail give one candidate.
C21_OneCandidatePerReportEmail ==
  ret.fn = "createUsers" =>
    /\ \A e \in UserEmails :
         Cardinality({i \in 1..Len(Emitted) : FromReport(Emitted[i]) /\ Emitted[i].email = e}) <= 1
    /\ \A i, j \in 1..Len(Emitted) :
         (FromReport(Emitted[i]) /\ i # j) => Emitted[i].email # Emitted[j].email
    /\ \A i \in 1..Len(Emitted) : FromReport(Emitted[i]) => Emitted[i].email \in ReportEmails
    /\ \A e \in ReportEmails : \E i \in 1..Len(Emitted) : Emitted[i].email = e
    /\ (call.profiles = <<>> /\ Len(call.reports) = 2 /\ Cardinality(ReportEmails) = 1
        /\ call.reports[1] = call.reports[2]) => Len(Emitted) = 1

\* Zero profiles and two reports sharing one UserEmail gave one candidate.
C21_Witness ==
  /\ ret.fn = "createUsers"
  /\ call.profiles = <<>> /\ Len(call.reports) = 2
  /\ call.reports[1] = call.reports[2] /\ call.reports[1].UserEmail # NoId
  /\ Len(Emitted) = 1 /\ Emitted[1].email = call.reports[1].UserEmail

\* C22: after the profiles are visited the map holds, for each distinct
\* non-null user id, exactly one candidate keyed by that id, with that id and
\* with the placeholder email made of the id's first 8 characters, and holds
\* nothing else; the emitted candidates that come from profiles are as many
\* as the distinct non-null user ids.
C22_OneCandidatePerProfileId ==
  ret.fn = "createUsers" =>
    /\ Len(ret.afterProfiles) = Cardinality(ProfileIds)
    /\ \A id \in ProfileIds :
         \E i \in 1..Len(ret.afterProfiles) :
           /\ ret.afterProfiles[i].key = id /\ ret.afterProfiles[i].id = id
           /\ ret.afterProfiles[i].email[1] = "temp.local"
           /\ ret.afterProfiles[i].email[2] = Slice8(id)
    /\ Cardinality({i \in 1..Len(Emitted) : ~FromReport(Emitted[i])}) = Cardinality(ProfileIds)
    /\ (Len(call.profiles) = 1 /\ ProfileIds # {} /\ call.reports = <<>>) => Len(Emitted) = 1

\* Two profiles with the same user id, and no report, gave one candidate.
C22_Witness ==
  /\ ret.fn = "createUsers"
  /\ Len(call.profiles) = 2 /\ call.profiles[1] = call.profiles[2]
  /\ call.profiles[1].user_id # NoId /\ call.reports = <<>>
  /\ Len(Emitted) = 1 /\ Emitted[1].id = call.profiles[1].user_id

\* C23: when the profiles hold a user id and the reports hold a real email
\* address, the emitted candidates include one with that id and its
\* placeholder email and another one with a fresh id and that address.
C23_ProfileAndReportNotMerged ==
  ret.fn = "createUsers" =>
    \A id \in ProfileIds : \A e \in ReportEmails :
      e[1] = "mail" =>
        \E i, j \in 1..Len(Emitted) :
          /\ i # j
          /\ Emitted[i].id = id /\ Emitted[i].email = PlaceholderEmail(id)
          /\ FromReport(Emitted[j]) /\ Emitted[j].email = e

\* One profile and one report with a real address gave two candidates.
C23_Witness ==
  /\ ret.fn = "createUsers"
  /\ Len(call.profiles) = 1 /\ Len(call.reports) = 1
  /\ ProfileIds # {} /\ \E e \in ReportEmails : e[1] = "mail"
  /\ Len(Emitted) = 2

\* C28: no two emitted candidates have the same id and no two have the same
\* email.
C28_CandidatesUnique ==
  ret.fn = "createUsers" =>
    \A i, j \in 1..Len(Emitted) :
      i # j => (Emitted[i].id # Emitted[j].id /\ Emitted[i].email # Emitted[j].email)

\* The defaults of the transformers: those of the data model (AuditReports:
\* datacenter and datahall "Unknown", issues_reported 0, state "Healthy",
\* ReportData {}; department; description, status; status, total_incidents,
\* report_data) and those only the transformers state (user_full_name, the
\* three counters of user_stats). GeneratedBy and walkthrough_id have
\* defaults that are not literals.
DefaultOf(t) ==
  CASE t = "AuditReports" ->
         [datacenter |-> "Unknown", datahall |-> "Unknown", issues_reported |-> "0",
          state |-> "Healthy", ReportData |-> "{}", user_full_name |-> "Unknown User"]
    [] t = "user_profiles" -> [department |-> "Data Center Operations"]
    [] t = "user_stats" ->
         [walkthroughs_completed |-> "0", issues_resolved |-> "0", reports_generated |-> "0"]
    [] t = "incidents" -> [description |-> "''", status |-> "open"]
    [] t = "reports" -> [status |-> "draft", total_incidents |-> "0", report_data |-> "{}"]
    [] OTHER -> [f \in {} |-> Undefined]

ParamOf(row, col, serialize) ==
  LET value == IF col \in DOMAIN row THEN row[col] ELSE Undefined
  IN  IF serialize /\ value = "{}" THEN "'{}'" ELSE value

BatchShape(serialize) ==
  (ret.fn = "insertBatch" /\ Len(call.data) >= 1) =>
    LET N == Len(call.data)
        M == Len(call.columns)
        st == ret.statements[1]
    IN  /\ Len(ret.statements) = 1
        /\ st.columnNames = call.columns
        /\ Len(st.placeholders) = N
        /\ \A r \in 1..N : Len(st.placeholders[r]) = M
        /\ \A r \in 0..(N - 1) : \A c \in 0..(M - 1) :
             st.placeholders[r + 1][c + 1] = r * M + c + 1
        /\ Len(st.values) = N * M
        /\ \A r \in 0..(N - 1) : \A c \in 0..(M - 1) :
             st.values[r * M + c + 1] = ParamOf(call.data[r + 1], call.columns[c + 1], serialize)

\* C25 (as amended): for N >= 1 rows and M columns the statement has N groups
\* of M placeholders numbered 1..N*M consecutively, N*M parameters, and the
\* parameter at r*M + c is the value of column c of row r, undefined when the
\* row lacks the field and its JSON text when the value is a non-null object.
C25_StatementShape == BatchShape(TRUE)

\* C25 (as stated): the same, with every parameter being the row's value itself.
C25_ParameterIsRowValue == BatchShape(FALSE)

C25_Witness ==
  /\ ret.fn = "insertBatch"
  /\ Len(call.data) = 2 /\ Len(call.columns) = 2
  /\ call.columns[2] \notin DOMAIN call.data[1]
  /\ call.columns[1] \in DOMAIN call.data[2] /\ call.data[2][call.columns[1]] = "{}"
  /\ ret.statements[1].values[3] = "'{}'"

\* C26: insertBatch called with no rows sends no statement to the target and
\* returns without throwing.
C26_EmptyBatchNoStatement ==
  (ret.fn = "insertBatch" /\ call.data = <<>>) => (ret.statements = <<>> /\ ~ret.threw)

C26_Witness ==
  ret.fn = "insertBatch" /\ call.data = <<>> /\ ret.statements = <<>> /\ ~ret.threw

\* ---- C27: the paging loop under a changing source
InLoop == pc \in {"fetch", "write"}

\* The page fetches of t's migration are at most ceil(T/P), the k-th at
\* offset (k-1)*P, and a fetch that returned no page is the last operation.
PagingBounded(t) ==
  LET pages == OpsOf(t, "page")
      T == IF Counted(t) THEN ops[t][1].rows ELSE 0
  IN  /\ Len(pages) <= Ceil(T, BatchSize)
      /\ \A k \in 1..Len(pages) : pages[k].offset = (k - 1) * BatchSize
      /\ \A k \in 1..Len(ops[t]) :
           (ops[t][k].op = "page" /\ ops[t][k].rows = 0) => k = Len(ops[t])
      /\ \A k \in 1..Len(ops[t]) :
           (ops[t][k].op = "page" /\ ops[t][k].rows = 0) =>
             (~InLoop \/ CurrentTable # t)

\* C27: whatever the source returns and however it changes during the run, the
\* paging loop of a table terminates: it fetches at most ceil(T/P) pages for
\* the count T read at the start, the offset grows by P after each non-empty
\* page, and the first empty page ends it.
C27_PagingTerminates ==
  /\ [](\A t \in Tables : PagingBounded(t))
  /\ [](InLoop => (offset = BatchSize * (Len(OpsOf(CurrentTable, "page"))
                                           - (IF pc = "write" THEN 1 ELSE 0))
                   /\ offset < totalRecords))
  /\ (InLoop ~> ~InLoop)

\* The source shrank while the table was paged: a fetch below the count read
\* at the start came back empty and the migration returned.
C27_Witness ==
  \E t \in Tables :
    /\ Counted(t) /\ Len(ops[t]) >= 3
    /\ ops[t][Len(ops[t])].op = "page" /\ ops[t][Len(ops[t])].outcome = "ok"
    /\ ops[t][Len(ops[t])].rows = 0
    /\ ops[t][Len(ops[t])].offset < ops[t][1].rows
    /\ results[t].tag = "result" /\ results[t].success

\* ---- C29: no transaction around a table's batches
OkWrites(t) == SelectSeq(ops[t], LAMBDA e : e.op = "write" /\ e.outcome = "ok")

\* t's migration returned a failure after at least one batch was inserted.
FailedAfterWrites(t) ==
  results[t].tag = "result" /\ ~results[t].success /\ OkWrites(t) # <<>>

\* What the successful results report as migrated.
ReportedBySuccessful ==
  SumOver([k \in {"users"} \cup Tables |->
             IF results[k].tag = "result" /\ results[k].success
             THEN results[k].recordsMigrated ELSE 0])

\* C29: when a table's migration fails after some of its pages were inserted,
\* the rows of those pages stay in the target, the table's result carries no
\* recordsMigrated, and the report's totalRecordsMigrated counts only what
\* the successful results carry, so those rows are not in it.
C29_FailedTableKeepsRows ==
  \A t \in Tables :
    FailedAfterWrites(t) =>
      /\ "recordsMigrated" \notin results[t].fields
      /\ {r.id : r \in target[t]} = 1..SumRows(OkWrites(t))
      /\ report.written => report.summary.totalRecordsMigrated = ReportedBySuccessful

C29_Witness ==
  \E t \in Tables :
    /\ FailedAfterWrites(t)
    /\ Cardinality(target[t]) = BatchSize
    /\ ops[t][Len(ops[t])].op = "write" /\ ops[t][Len(ops[t])].offset = BatchSize
    /\ report.written
    /\ report.summary.totalRecordsMigrated = 0

\* ---- C30: DatabaseConnection.transaction
Issued(q) == {k \in 1..Len(call.log) : call.log[k].q = q}
Threw(q) == \E k \in Issued(q) : call.log[k].o # "ok"
TxnDone == call.fn = "transaction" /\ call.at = "done"

\* C30: transaction issues BEGIN, then the callback's statements, then COMMIT
\* when the callback succeeded; when BEGIN, the callback or COMMIT throws it
\* issues ROLLBACK and throws; a call that returns has issued COMMIT and no
\* ROLLBACK; and the client acquired for the call is released exactly once on
\* every path, also when ROLLBACK throws.
C30_TransactionBrackets ==
  call.fn = "transaction" =>
    /\ Issued("BEGIN") \subseteq {1}
    /\ call.log # <<>> => call.log[1].q = "BEGIN"
    /\ \A k \in Issued("statement") : \A j \in 1..(k - 1) : call.log[j].o = "ok"
    /\ \A k \in Issued("COMMIT") :
         /\ k = call.n + 2
         /\ \A j \in 1..(k - 1) : call.log[j].o = "ok"
         /\ \A j \in 2..(k - 1) : call.log[j].q = "statement"
    /\ \A k \in Issued("ROLLBACK") :
         /\ k = Len(call.log)
         /\ k > 1 /\ call.log[k - 1].o # "ok" /\ call.log[k - 1].q # "ROLLBACK"
    /\ call.released <= call.clients
    /\ TxnDone =>
         /\ call.released = call.clients
         /\ ret.threw <=> (call.clients = 0 \/ Threw("BEGIN") \/ Threw("statement") \/ Threw("COMMIT"))
         /\ (Threw("BEGIN") \/ Threw("statement") \/ Threw("COMMIT")) => Issued("ROLLBACK") # {}
         /\ ~ret.threw =>
              /\ Issued("COMMIT") # {} /\ Issued("ROLLBACK") = {}
              /\ Len(call.log) = call.n + 2
         /\ call.clients = 0 => call.log = <<>>

\* COMMIT threw, then ROLLBACK threw, and the client was released once.
C30_Witness ==
  /\ TxnDone
  /\ Threw("COMMIT") /\ Threw("ROLLBACK")
  /\ call.clients = 1 /\ call.released = 1
  /\ ret.threw /\ ret.error = "ROLLBACK"

====
